---- MODULE Spec2Model ----
(***************************************************************************)
(* Model of the agent dependency graph, the cascading propagation engine,  *)
(* the credential failover executor and the OS agent's response cache of   *)
(* os_k8s_agent_system.                                                    *)
(***************************************************************************)
EXTENDS Integers, Sequences, FiniteSets, TLC

(***************************************************************************)
(* Bounds of the model.                                                    *)
(***************************************************************************)
MaxEdges == 3
MaxDepth == 4
MaxFallbacks == 2

(***************************************************************************)
(* The specialist agents.  agent_name is the unique identifier of an agent *)
(* (BaseAgent.__init__), fixed by each concrete class.                     *)
(***************************************************************************)
OSAgent == "os-agent"
KubernetesAgent == "kubernetes-agent"
DatabaseAgent == "database-agent"
Agents == {OSAgent, KubernetesAgent, DatabaseAgent}

\* a name that no agent carries, and the absent (None) argument
UnknownName == "no-such-agent"
None == "None"

Range(s) == {s[i] : i \in 1..Len(s)}

VARIABLES
    downstream,         \* BaseAgent._downstream_agents, per agent
    registry,           \* AgentRegistry._agents: the registered names, in insertion order
    ret,                \* the last operation, its arguments and what it returned
    current_api_key,    \* Config.current_api_key
    fallback_api_keys,  \* Config.fallback_api_keys
    openai_api_key,     \* Config.openai_api_key
    llm_key,            \* the key the calling agent's LLM client was built with
    call,               \* the locals of the running execute_with_fallback call
    threads,            \* the locals of the execute_with_fallback calls of concurrent callers
    enable_caching,     \* Config.enable_caching
    cache_files,        \* the files of OSAgent._cache_dir, by name
    put,                \* per cache key, the data last handed to _save_to_cache
    cres                \* the last cache operation and what it returned

gvars == <<downstream, registry, ret>>
fvars == <<current_api_key, fallback_api_keys, openai_api_key, llm_key, call, threads>>
cvars == <<enable_caching, cache_files, put, cres>>
vars == <<gvars, fvars, cvars>>

(***************************************************************************)
(* Results.  A result dict is a record with the set of keys it holds; a    *)
(* field whose key is absent holds its empty default.  A mapping           *)
(* name -> result is a sequence of [name, entry] in dict insertion order.  *)
(***************************************************************************)
Result(keys, impacts, risk, error) ==
    [keys |-> keys, impacts |-> impacts, risk_level |-> risk, error |-> error,
     changes |-> <<>>, downstream |-> <<>>, downstream_impacts |-> <<>>]

NoResult == Result({}, <<>>, "", "")

\* base_agent.py:140-143, the error-shaped entry
ErrorEntry(msg) == Result({"error", "impacts"}, <<>>, "", msg)

\* the early return of the Kubernetes and Database agents on empty input
EmptyImpact == Result({"impacts", "required_actions", "risk_level"}, <<>>, "LOW", "")

\* OSAgent.analyze_upstream_impact's constant result
OSImpact == Result({"impacts", "required_actions", "risk_level", "note"}, <<>>, "LOW", "")

MapKeys(m) == {m[i].name : i \in 1..Len(m)}

MapGet(m, n) == m[CHOOSE i \in 1..Len(m) : m[i].name = n].entry

\* a new key is put in front of the others
MapSet_prepend(m, n, e) ==
    IF n \in MapKeys(m)
    THEN [i \in 1..Len(m) |-> IF m[i].name = n THEN [name |-> n, entry |-> e] ELSE m[i]]
    ELSE <<[name |-> n, entry |-> e]>> \o m

\* d[name] = entry on a Python dict: an existing key keeps its position
MapSet(m, n, e) ==
    IF n \in MapKeys(m)
    THEN [i \in 1..Len(m) |-> IF m[i].name = n THEN [name |-> n, entry |-> e] ELSE m[i]]
    ELSE Append(m, [name |-> n, entry |-> e])

(***************************************************************************)
(* The reasoning capability is external: what an agent's LLM call does in  *)
(* one cascade is an input.                                                *)
(***************************************************************************)
Severities == {"CRITICAL", "HIGH", "MEDIUM", "LOW"}

LLMOutcomes ==
    {[t |-> "raise", impacts |-> <<>>, overall |-> ""],      \* chain.invoke raises
     [t |-> "garbage", impacts |-> <<>>, overall |-> ""],    \* json.loads raises JSONDecodeError
     [t |-> "nondict", impacts |-> <<>>, overall |-> ""],    \* valid JSON that is not an object
     [t |-> "json", impacts |-> <<>>, overall |-> ""],       \* no impacts, no risk_assessment
     [t |-> "json", impacts |-> <<"HIGH">>, overall |-> ""],
     [t |-> "json", impacts |-> <<"LOW", "CRITICAL">>, overall |-> "CRITICAL"]}

\* str(e) of the exception a failing LLM call raises: the provider turned the
\* request down for its rate limit
LLMError == "Rate limit hit"

LLMAgents == {KubernetesAgent, DatabaseAgent}

Oracles == [LLMAgents -> LLMOutcomes]

\* the upstream batches handed to an operation from outside
ChangeBatches == {<<>>, <<"HIGH">>}

\* What a call gives back: raised or returned (val: a result dict, map: a
\* mapping name -> result), the analyze_upstream_impact invocations it made
\* (log) and the number of LLM calls it issued (llm).
Returned(val, log, llm) ==
    [raised |-> FALSE, err |-> "", val |-> val, map |-> <<>>, log |-> log, llm |-> llm]
ReturnedMap(map, log, llm) ==
    [raised |-> FALSE, err |-> "", val |-> NoResult, map |-> map, log |-> log, llm |-> llm]
Raised(err, log, llm) ==
    [raised |-> TRUE, err |-> err, val |-> NoResult, map |-> <<>>, log |-> log, llm |-> llm]

\* one call of consumer.analyze_upstream_impact(upstream) made by the propagate
\* of producer running at depth, and what the call gave back
Invocation(depth, producer, consumer, upstream, r) ==
    [depth |-> depth, producer |-> producer, consumer |-> consumer, upstream |-> upstream,
     raised |-> r.raised, err |-> r.err, val |-> r.val]

(***************************************************************************)
(* BaseAgent.propagate_to_downstream and the agents' analyze_upstream_     *)
(* impact call each other.  ds is the wiring, llm the outcome of each      *)
(* agent's LLM call, depth the number of frames below the call: a call     *)
(* deeper than MaxDepth raises RecursionError, as in Python.               *)
(***************************************************************************)
RECURSIVE analyze_upstream_impact(_, _, _, _, _)
RECURSIVE propagate_to_downstream(_, _, _, _, _)
RECURSIVE PropagateLoop(_, _, _, _, _, _, _)

\* the keys of a parsed result (kubernetes_agent.py:380-394, database_agent.py:158-168)
ParsedKeys(self) ==
    IF self = KubernetesAgent
    THEN {"impacts", "required_actions", "risk_level", "internal_policy_conflicts",
          "version_compatibility", "migration_timeline", "metadata"}
    ELSE {"impacts", "required_actions", "risk_level", "risk_assessment", "metadata"}

\* the keys of a parse-failure result (kubernetes_agent.py:406-412, database_agent.py:172-177)
ParseErrorKeys(self) ==
    IF self = KubernetesAgent
    THEN {"impacts", "required_actions", "risk_level", "error", "raw_response"}
    ELSE {"impacts", "required_actions", "risk_level", "error"}

\* the Kubernetes agent hands its impacts to the propagate of the OS agent
ParsedImpact_from_root(self, o, upstream_changes, ds, llm, depth) ==
    LET base == Result(ParsedKeys(self), o.impacts,
                       IF o.overall = "" THEN "MEDIUM" ELSE o.overall, "")
    IN  IF self = KubernetesAgent /\ o.impacts # <<>>
        THEN LET p == propagate_to_downstream(OSAgent, o.impacts, ds, llm, depth + 1)
             IN  IF p.raised
                 THEN Raised(p.err, p.log, 1 + p.llm)
                 ELSE Returned([base EXCEPT !.keys = @ \cup {"downstream_impacts"},
                                            !.downstream_impacts = p.map],
                               p.log, 1 + p.llm)
        ELSE Returned(base, <<>>, 1)

\* the json.loads branch of the Kubernetes and Database agents
ParsedImpact(self, o, upstream_changes, ds, llm, depth) ==
    LET base == Result(ParsedKeys(self), o.impacts,
                       IF o.overall = "" THEN "MEDIUM" ELSE o.overall, "")
    IN  IF self = KubernetesAgent /\ ds[self] # <<>> /\ o.impacts # <<>>
        THEN LET p == propagate_to_downstream(self, o.impacts, ds, llm, depth + 1)
             IN  IF p.raised
                 THEN Raised(p.err, p.log, 1 + p.llm)
                 ELSE Returned([base EXCEPT !.keys = @ \cup {"downstream_impacts"},
                                            !.downstream_impacts = p.map],
                               p.log, 1 + p.llm)
        ELSE Returned(base, <<>>, 1)

\* analyze_upstream_impact without the early return on an empty batch
analyze_upstream_impact_no_empty_check(self, upstream_changes, ds, llm, depth) ==
    IF depth > MaxDepth THEN Raised("RecursionError", <<>>, 0)
    ELSE IF self = OSAgent THEN Returned(OSImpact, <<>>, 0)
    ELSE LET o == llm[self]
         IN  CASE o.t = "raise" -> Raised(LLMError, <<>>, 1)
               [] o.t = "garbage" ->
                     Returned(Result(ParseErrorKeys(self), <<>>, "UNKNOWN", "JSONDecodeError"),
                              <<>>, 1)
               [] o.t = "nondict" -> Raised("AttributeError", <<>>, 1)
               [] OTHER -> ParsedImpact(self, o, upstream_changes, ds, llm, depth)

analyze_upstream_impact(self, upstream_changes, ds, llm, depth) ==
    IF depth > MaxDepth THEN Raised("RecursionError", <<>>, 0)
    ELSE IF self = OSAgent THEN Returned(OSImpact, <<>>, 0)
    ELSE IF upstream_changes = <<>> THEN Returned(EmptyImpact, <<>>, 0)
    ELSE LET o == llm[self]
         IN  CASE o.t = "raise" -> Raised(LLMError, <<>>, 1)
               [] o.t = "garbage" ->
                     Returned(Result(ParseErrorKeys(self), <<>>, "UNKNOWN", "JSONDecodeError"),
                              <<>>, 1)
               [] o.t = "nondict" -> Raised("AttributeError", <<>>, 1)
               [] OTHER -> ParsedImpact(self, o, upstream_changes, ds, llm, depth)

\* the except branch records nothing for the failing consumer
PropagateLoop_skip_failed(self, my_changes, ds, llm, depth, i, acc) ==
    IF i > Len(ds[self]) THEN acc
    ELSE
    LET downstream_agent == ds[self][i]
        r == analyze_upstream_impact(downstream_agent, my_changes, ds, llm, depth + 1)
        inv == IF depth + 1 > MaxDepth THEN <<>>
               ELSE <<Invocation(depth, self, downstream_agent, my_changes, r)>>
    IN  PropagateLoop(self, my_changes, ds, llm, depth, i + 1,
                      ReturnedMap(IF r.raised THEN acc.map
                                  ELSE MapSet(acc.map, downstream_agent, r.val),
                                  acc.log \o inv \o r.log, acc.llm + r.llm))

\* the for loop without its try/except: a raising consumer ends the call
PropagateLoop_unguarded(self, my_changes, ds, llm, depth, i, acc) ==
    IF i > Len(ds[self]) THEN acc
    ELSE
    LET downstream_agent == ds[self][i]
        r == analyze_upstream_impact(downstream_agent, my_changes, ds, llm, depth + 1)
        inv == IF depth + 1 > MaxDepth THEN <<>>
               ELSE <<Invocation(depth, self, downstream_agent, my_changes, r)>>
    IN  IF r.raised
        THEN Raised(r.err, acc.log \o inv \o r.log, acc.llm + r.llm)
        ELSE PropagateLoop(self, my_changes, ds, llm, depth, i + 1,
                           ReturnedMap(MapSet(acc.map, downstream_agent, r.val),
                                       acc.log \o inv \o r.log, acc.llm + r.llm))

\* one iteration of the for loop of propagate_to_downstream, then the rest
PropagateLoop(self, my_changes, ds, llm, depth, i, acc) ==
    IF i > Len(ds[self]) THEN acc
    ELSE
    LET downstream_agent == ds[self][i]
        r == analyze_upstream_impact(downstream_agent, my_changes, ds, llm, depth + 1)
        inv == IF depth + 1 > MaxDepth THEN <<>>
               ELSE <<Invocation(depth, self, downstream_agent, my_changes, r)>>
        downstream_changes == IF "changes" \in r.val.keys THEN r.val.changes ELSE <<>>
        nest == downstream_changes # <<>> /\ ds[downstream_agent] # <<>>
        n == propagate_to_downstream(downstream_agent, downstream_changes, ds, llm, depth + 1)
        entry == IF r.raised THEN ErrorEntry(r.err)
                 ELSE IF ~nest THEN r.val
                 ELSE IF n.raised THEN ErrorEntry(n.err)
                 ELSE [r.val EXCEPT !.keys = @ \cup {"downstream"}, !.downstream = n.map]
        nlog == IF ~r.raised /\ nest THEN n.log ELSE <<>>
        nllm == IF ~r.raised /\ nest THEN n.llm ELSE 0
    IN  PropagateLoop(self, my_changes, ds, llm, depth, i + 1,
                      ReturnedMap(MapSet(acc.map, downstream_agent, entry),
                                  acc.log \o inv \o r.log \o nlog,
                                  acc.llm + r.llm + nllm))

propagate_to_downstream(self, my_changes, ds, llm, depth) ==
    IF depth > MaxDepth THEN Raised("RecursionError", <<>>, 0)
    ELSE IF ds[self] = <<>> THEN ReturnedMap(<<>>, <<>>, 0)
    ELSE PropagateLoop(self, my_changes, ds, llm, depth, 1, ReturnedMap(<<>>, <<>>, 0))

(***************************************************************************)
(* The credential pool (Config) and execute_with_fallback.  The text of   *)
(* an error is a sequence of characters, classified as the code does.     *)
(***************************************************************************)
UpperCase == <<"A", "B", "C", "D", "E", "F", "G", "H", "I", "J", "K", "L", "M", "N", "O", "P", "Q", "R", "S", "T", "U", "V", "W", "X", "Y", "Z">>
LowerCase == <<"a", "b", "c", "d", "e", "f", "g", "h", "i", "j", "k", "l", "m", "n", "o", "p", "q", "r", "s", "t", "u", "v", "w", "x", "y", "z">>

\* str.lower()
lower(text) ==
    [i \in 1..Len(text) |->
        IF \E k \in 1..Len(UpperCase) : UpperCase[k] = text[i]
        THEN LowerCase[CHOOSE k \in 1..Len(UpperCase) : UpperCase[k] = text[i]]
        ELSE text[i]]

\* keyword in text
Contains(text, keyword) ==
    \E i \in 1..(Len(text) - Len(keyword) + 1) :
        SubSeq(text, i, i + Len(keyword) - 1) = keyword

\* api_utils.py:43, the markers of a key exhaustion error
Keywords == {<<"r", "a", "t", "e", " ", "l", "i", "m", "i", "t">>,
             <<"q", "u", "o", "t", "a">>,
             <<"i", "n", "s", "u", "f", "f", "i", "c", "i", "e", "n", "t">>,
             <<"l", "i", "m", "i", "t", " ", "e", "x", "c", "e", "e", "d", "e", "d">>}

\* what the callable can raise: str(e)
ErrorTexts ==
    {<<"R", "a", "t", "e", " ", "l", "i", "m", "i", "t", " ", "h", "i", "t">>,
     <<"Q", "U", "O", "T", "A", " ", "u", "s", "e", "d", " ", "u", "p">>,
     <<"I", "n", "s", "u", "f", "f", "i", "c", "i", "e", "n", "t", " ", "c", "r", "e", "d", "i", "t">>,
     <<"L", "i", "m", "i", "t", " ", "E", "x", "c", "e", "e", "d", "e", "d">>,
     <<"t", "i", "m", "e", "o", "u", "t">>,
     <<"R", "a", "t", "e", "L", "i", "m", "i", "t", "E", "r", "r", "o", "r">>,
     <<"4", "0", "1", " ", "U", "n", "a", "u", "t", "h", "o", "r", "i", "z", "e", "d">>}

NoError == <<>>
AllKeysExhausted == <<"A", "l", "l", " ", "A", "P", "I", " ", "k", "e", "y", "s", " ", "e", "x", "h", "a", "u", "s", "t", "e", "d">>

\* the characters of the error texts of the cascade
Characters(err) ==
    IF err = LLMError
    THEN <<"R", "a", "t", "e", " ", "l", "i", "m", "i", "t", " ", "h", "i", "t">>
    ELSE IF err = "RecursionError"
    THEN <<"m", "a", "x", "i", "m", "u", "m", " ", "r", "e", "c", "u", "r", "s", "i", "o", "n">>
    ELSE <<"o", "b", "j", "e", "c", "t", " ", "h", "a", "s", " ", "n", "o", " ", "a", "t", "t", "r", "i", "b", "u", "t", "e">>

\* every error is classified as a key error
IsKeyError_always(e) == TRUE

\* api_utils.py:40-43
IsKeyError(e) == \E keyword \in Keywords : Contains(lower(e), keyword)

\* Config.__init__, lines 85 and 103-107, with the fallback list as configured:
\* key 0 is OPENAI_API_KEY, the keys 1..n are the fallback keys
ConfigInit(n) ==
    /\ current_api_key = 0
    /\ openai_api_key = 0
    /\ fallback_api_keys = [i \in 1..n |-> i]
    /\ llm_key = 0

\* the fallback list is popped at its end
switch_to_fallback_key_pop_last(cur, fallbacks) ==
    IF fallbacks # <<>>
    THEN [switched |-> TRUE, current |-> fallbacks[Len(fallbacks)],
          fallbacks |-> SubSeq(fallbacks, 1, Len(fallbacks) - 1)]
    ELSE [switched |-> FALSE, current |-> cur, fallbacks |-> fallbacks]

\* the key that becomes active stays in the fallback list
switch_to_fallback_key_keep(cur, fallbacks) ==
    IF fallbacks # <<>>
    THEN [switched |-> TRUE, current |-> Head(fallbacks), fallbacks |-> fallbacks]
    ELSE [switched |-> FALSE, current |-> cur, fallbacks |-> fallbacks]

\* Config.switch_to_fallback_key: its return value and the pool it leaves
switch_to_fallback_key(cur, fallbacks) ==
    IF fallbacks # <<>>
    THEN [switched |-> TRUE, current |-> Head(fallbacks), fallbacks |-> Tail(fallbacks)]
    ELSE [switched |-> FALSE, current |-> cur, fallbacks |-> fallbacks]

\* the locals of execute_with_fallback (pc, attempts, max_attempts,
\* last_exception), what it gave back (result, error) and a record of the
\* call: the pool it started with (start), whether llm_callable is a bound
\* method, and every invocation of llm_callable with the pool it ran under
IdleCall ==
    [pc |-> "idle", attempts |-> 0, max_attempts |-> 0, last_exception |-> NoError,
     result |-> "", error |-> NoError, start |-> <<>>, bound |-> FALSE, hist |-> <<>>]

Running == call.pc = "loop"
Ended == call.pc \in {"returned", "raised"}

\* one invocation: the text raised (NoError on success) and the pool before it
Attempt(e) ==
    [error |-> e, key |-> current_api_key, llm |-> llm_key, fallbacks |-> fallback_api_keys]

\* the callers that share one configuration, and the locals of the call of
\* each: where it stands (pc), attempts, max_attempts and last_exception, the
\* keys that were active at its invocations of llm_callable (tried) and the
\* keys whose failure made it rotate the pool (rotated)
Callers == {1, 2}

IdleThread ==
    [pc |-> "idle", attempts |-> 0, max_attempts |-> 0, last_exception |-> NoError,
     tried |-> <<>>, rotated |-> <<>>]

NoThreads == [t \in Callers |-> IdleThread]

\* what the callable of a concurrent caller raises
ThreadErrors == {<<"R", "a", "t", "e", " ", "l", "i", "m", "i", "t", " ", "h", "i", "t">>,
                 <<"t", "i", "m", "e", "o", "u", "t">>}

\* api_utils.py:28-30, caller t enters execute_with_fallback
ThreadStart(t) ==
    /\ threads[t].pc = "idle"
    /\ threads' = [threads EXCEPT ![t] =
                      [@ EXCEPT !.pc = "loop", !.max_attempts = 1 + Len(fallback_api_keys)]]
    /\ UNCHANGED <<current_api_key, fallback_api_keys, openai_api_key, llm_key, call,
                   gvars, cvars>>

\* api_utils.py:32-38 and 70, caller t tests the loop condition and invokes
\* llm_callable, which returns (NoError) or raises e
ThreadInvoke(t, e) ==
    /\ threads[t].pc = "loop"
    /\ threads' = [threads EXCEPT ![t] =
                      IF @.attempts >= @.max_attempts
                      THEN [@ EXCEPT !.pc = "raised"]
                      ELSE IF e = NoError
                      THEN [@ EXCEPT !.pc = "returned",
                                     !.tried = Append(@, current_api_key)]
                      ELSE [@ EXCEPT !.pc = "except", !.last_exception = e,
                                     !.tried = Append(@, current_api_key)]]
    /\ UNCHANGED <<current_api_key, fallback_api_keys, openai_api_key, llm_key, call,
                   gvars, cvars>>

\* api_utils.py:38-65, caller t runs the except branch
ThreadHandle(t) ==
    LET th == threads[t]
        sw == switch_to_fallback_key(current_api_key, fallback_api_keys)
    IN  /\ th.pc = "except"
        /\ IF IsKeyError(th.last_exception) /\ sw.switched
           THEN /\ current_api_key' = sw.current
                /\ openai_api_key' = sw.current
                /\ fallback_api_keys' = sw.fallbacks
                /\ threads' = [threads EXCEPT ![t] =
                                  [@ EXCEPT !.pc = "loop", !.attempts = @ + 1,
                                            !.rotated = Append(@, th.tried[Len(th.tried)])]]
           ELSE /\ threads' = [threads EXCEPT ![t] = [@ EXCEPT !.pc = "raised"]]
                /\ UNCHANGED <<current_api_key, fallback_api_keys, openai_api_key>>
        /\ UNCHANGED <<llm_key, call, gvars, cvars>>

\* api_utils.py:28-30
StartCall(bound) ==
    /\ ~Running
    /\ call' = [pc |-> "loop", attempts |-> 0,
                max_attempts |-> 1 + Len(fallback_api_keys), last_exception |-> NoError,
                result |-> "", error |-> NoError,
                start |-> <<current_api_key>> \o fallback_api_keys, bound |-> bound,
                hist |-> <<>>]
    /\ UNCHANGED <<current_api_key, fallback_api_keys, openai_api_key, llm_key, threads,
                   gvars, cvars>>

\* the exhausted branch without its raise: the loop goes on
OnExhausted_retry(c, e) == c

\* the exhausted branch returns None instead of raising
OnExhausted_swallow(c, e) == [c EXCEPT !.pc = "returned", !.result = "None"]

\* api_utils.py:59-61, no fallback key is left
OnExhausted(c, e) == [c EXCEPT !.pc = "raised", !.error = AllKeysExhausted]

\* api_utils.py:32-70, one pass through the while loop; e is what the
\* invocation of llm_callable raises (NoError: it returns)
Iterate(e) ==
    /\ Running
    /\ Len(call.hist) <= MaxFallbacks + 1
    /\ IF call.attempts >= call.max_attempts
       THEN \* line 70
            /\ call' = [call EXCEPT !.pc = "raised", !.error = call.last_exception]
            /\ UNCHANGED <<current_api_key, fallback_api_keys, openai_api_key, llm_key>>
       ELSE
       LET c == [call EXCEPT !.hist = Append(@, Attempt(e))]
           sw == switch_to_fallback_key(current_api_key, fallback_api_keys)
       IN  IF e = NoError
           THEN \* lines 35-36
                /\ call' = [c EXCEPT !.pc = "returned", !.result = "response"]
                /\ UNCHANGED <<current_api_key, fallback_api_keys, openai_api_key, llm_key>>
           ELSE IF ~IsKeyError(e)
           THEN \* lines 62-65
                /\ call' = [c EXCEPT !.pc = "raised", !.error = e, !.last_exception = e]
                /\ UNCHANGED <<current_api_key, fallback_api_keys, openai_api_key, llm_key>>
           ELSE IF sw.switched
           THEN \* lines 47-58
                /\ current_api_key' = sw.current
                /\ openai_api_key' = sw.current
                /\ fallback_api_keys' = sw.fallbacks
                /\ llm_key' = IF call.bound THEN sw.current ELSE llm_key
                /\ call' = [c EXCEPT !.attempts = @ + 1, !.last_exception = e]
           ELSE \* lines 59-61
                /\ call' = OnExhausted([c EXCEPT !.last_exception = e], e)
                /\ UNCHANGED <<current_api_key, fallback_api_keys, openai_api_key, llm_key>>
    /\ UNCHANGED <<threads, gvars, cvars>>

(***************************************************************************)
(* The response cache of the OS agent.  A string is a sequence of tokens,  *)
(* a dict a sequence of <<key, value>> pairs in insertion order, a file    *)
(* the token sequence json.dump wrote.                                     *)
(***************************************************************************)
\* the version changes the OS agent is asked about
FromVersions == {<<"SP6">>}
ToVersions == {<<"SP6">>, <<"SP7">>}
Workloads == {<<"Kubernetes">>}
Layers == {"OS"}

VersionChanges ==
    [layer : Layers, from_version : FromVersions, to_version : ToVersions,
     workload : Workloads]

\* the md5 digest is taken to be one-to-one on the key strings
md5(key_str) == key_str

\* a key over every field of the request
get_cache_key_full(version_change) ==
    md5(<<version_change.layer, ":">> \o version_change.from_version \o <<":">>
            \o version_change.to_version \o <<":">> \o version_change.workload)

\* OSAgent._get_cache_key
get_cache_key(version_change) ==
    md5(version_change.from_version \o <<":">> \o version_change.to_version
            \o <<":">> \o version_change.workload)

CacheKeys == {get_cache_key(vc) : vc \in VersionChanges}

\* every key names the same file
cache_file_shared(cache_key) == <<"os_analysis_", "shared", ".json">>

\* os_agent.py:208 and 223
cache_file(cache_key) == <<"os_analysis_">> \o cache_key \o <<".json">>

CacheFileNames == {cache_file(k) : k \in CacheKeys}

\* the analysis dicts handed to the cache
EmptyDict == <<>>
ScrapeVerification == <<"scrape_verification", "meta">>
Analyses ==
    {<< <<"breaking_changes", "cgroup v2">>, ScrapeVerification >>,
     << <<"breaking_changes", "none">>, <<"recommendations", "test">>, ScrapeVerification >>}
CacheValues == Analyses \cup {EmptyDict}

RECURSIVE Flatten(_)
Flatten(pairs) ==
    IF pairs = <<>> THEN <<>>
    ELSE <<pairs[1][1], pairs[1][2]>> \o Flatten(Tail(pairs))

\* json.dump(data, f)
json_dump(data) == <<"{">> \o Flatten(data) \o <<"}">>

\* what is on disk when json.dump fails on the way
Truncated(text) == SubSeq(text, 1, Len(text) - 1)

\* json.load(f): the dict, or a JSONDecodeError
json_load(text) ==
    IF /\ Len(text) >= 2
       /\ text[1] = "{"
       /\ text[Len(text)] = "}"
       /\ (Len(text) - 2) % 2 = 0
    THEN [ok |-> TRUE,
          doc |-> [i \in 1..((Len(text) - 2) \div 2) |-> <<text[2 * i], text[2 * i + 1]>>]]
    ELSE [ok |-> FALSE, doc |-> <<>>]

NoFile == [exists |-> FALSE, text |-> <<>>]
File(text) == [exists |-> TRUE, text |-> text]

NotCached == [found |-> FALSE, doc |-> <<>>]
Cached(doc) == [found |-> TRUE, doc |-> doc]

\* OSAgent._load_from_cache on the files fs: None, or the dict read
load_from_cache(enabled, fs, cache_key) ==
    IF ~enabled THEN NotCached
    ELSE LET f == fs[cache_file(cache_key)]
         IN  IF f.exists /\ json_load(f.text).ok
             THEN Cached(json_load(f.text).doc)
             ELSE NotCached

\* how a write to the cache directory can go
WriteOutcomes == {"written", "open fails", "dump fails"}

\* OSAgent._save_to_cache on the files fs: the files it leaves
save_to_cache(enabled, fs, cache_key, data, w) ==
    IF ~enabled THEN fs
    ELSE CASE w = "written" -> [fs EXCEPT ![cache_file(cache_key)] = File(json_dump(data))]
           [] w = "dump fails" ->
                 [fs EXCEPT ![cache_file(cache_key)] = File(Truncated(json_dump(data)))]
           [] OTHER -> fs

\* `if cached:` of analyze_version_change: None and the empty dict are false
Truthy(c) == c.found /\ c.doc # <<>>

\* no request: the cache was not touched on behalf of a version change
NoRequest == [layer |-> "none", from_version |-> <<>>, to_version |-> <<>>, workload |-> <<>>]

NoPut == [done |-> FALSE, data |-> <<>>, stored |-> FALSE, by |-> NoRequest]

CRes(op, cache_key, c, llm_calls, raised) ==
    [op |-> op, key |-> cache_key, found |-> c.found, doc |-> c.doc,
     llm_calls |-> llm_calls, raised |-> raised, write |-> "none", request |-> NoRequest]

CacheInit(enabled) ==
    /\ enable_caching = enabled
    /\ cache_files = [f \in CacheFileNames |-> NoFile]
    /\ put = [k \in CacheKeys |-> NoPut]
    /\ cres = CRes("init", <<>>, NotCached, 0, FALSE)

\* a call of _save_to_cache
SaveToCache(cache_key, data, w) ==
    /\ cache_files' = save_to_cache(enable_caching, cache_files, cache_key, data, w)
    /\ put' = [put EXCEPT ![cache_key] =
                  [done |-> TRUE, data |-> data,
                   stored |-> enable_caching /\ w = "written", by |-> NoRequest]]
    /\ cres' = CRes("save", cache_key, NotCached, 0, FALSE)
    /\ UNCHANGED <<enable_caching, gvars, fvars>>

\* a call of _load_from_cache
LoadFromCache(cache_key) ==
    /\ cres' = CRes("load", cache_key,
                    load_from_cache(enable_caching, cache_files, cache_key), 0, FALSE)
    /\ UNCHANGED <<enable_caching, cache_files, put, gvars, fvars>>

\* the entry of a key is deleted by hand
DeleteEntry(cache_key) ==
    /\ cache_files[cache_file(cache_key)].exists
    /\ cache_files' = [cache_files EXCEPT ![cache_file(cache_key)] = NoFile]
    /\ put' = [put EXCEPT ![cache_key] = NoPut]
    /\ cres' = CRes("delete", cache_key, NotCached, 0, FALSE)
    /\ UNCHANGED <<enable_caching, gvars, fvars>>

\* what the OS agent's LLM call gives: it raises, or its content is not
\* JSON, or JSON that is not an object, or an analysis object
OSOutcomes ==
    {[t |-> "raise", doc |-> <<>>], [t |-> "garbage", doc |-> <<>>],
     [t |-> "nondict", doc |-> <<>>],
     [t |-> "json", doc |-> <<>>],
     [t |-> "json", doc |-> << <<"breaking_changes", "cgroup v2">> >>]}

\* analysis_data["scrape_verification"] = scrape_metadata
WithScrapeVerification(doc) == Append(doc, ScrapeVerification)

\* os_agent.py:570-578
ParseErrorAnalysis ==
    << <<"breaking_changes", "[]">>, <<"parse_error", "JSONDecodeError">>,
       <<"raw_response", "content">>, ScrapeVerification >>

\* analyze_version_change that never consults the cache
analyze_version_change_no_lookup(enabled, fs, version_change, o, w) ==
    LET cache_key == get_cache_key(version_change)
        cached == load_from_cache(enabled, fs, cache_key)
        analysis_data == WithScrapeVerification(o.doc)
        out(raised, doc, hit, llm_calls, files, saved) ==
            [raised |-> raised, err |-> IF ~raised THEN "" ELSE IF o.t = "raise" THEN LLMError
                                        ELSE "TypeError",
             doc |-> doc, hit |-> hit, llm_calls |-> llm_calls,
             files |-> files, saved |-> saved, data |-> analysis_data,
             stored |-> saved /\ enabled /\ w = "written",
             write |-> IF ~saved THEN "none" ELSE IF ~enabled THEN "disabled" ELSE w]
    IN  CASE o.t = "json" ->
               out(FALSE, analysis_data, FALSE, 1,
                   save_to_cache(enabled, fs, cache_key, analysis_data, w), TRUE)
          [] o.t = "garbage" -> out(FALSE, ParseErrorAnalysis, FALSE, 1, fs, FALSE)
          [] OTHER -> out(TRUE, <<>>, FALSE, 1, fs, FALSE)

\* analyze_version_change that lets a failing cache write end the call
analyze_version_change_strict_save(enabled, fs, version_change, o, w) ==
    LET cache_key == get_cache_key(version_change)
        cached == load_from_cache(enabled, fs, cache_key)
        analysis_data == WithScrapeVerification(o.doc)
        out(raised, doc, hit, llm_calls, files, saved) ==
            [raised |-> raised, err |-> IF ~raised THEN "" ELSE IF o.t = "raise" THEN LLMError
                                        ELSE "TypeError",
             doc |-> doc, hit |-> hit, llm_calls |-> llm_calls,
             files |-> files, saved |-> saved, data |-> analysis_data,
             stored |-> saved /\ enabled /\ w = "written",
             write |-> IF ~saved THEN "none" ELSE IF ~enabled THEN "disabled" ELSE w]
    IN  IF Truthy(cached)
        THEN out(FALSE, cached.doc, TRUE, 0, fs, FALSE)
        ELSE CASE o.t = "json" /\ enabled /\ w # "written" ->
                    out(TRUE, <<>>, FALSE, 1,
                        save_to_cache(enabled, fs, cache_key, analysis_data, w), TRUE)
               [] o.t = "json" /\ ~(enabled /\ w # "written") ->
                    out(FALSE, analysis_data, FALSE, 1,
                        save_to_cache(enabled, fs, cache_key, analysis_data, w), TRUE)
               [] o.t = "garbage" -> out(FALSE, ParseErrorAnalysis, FALSE, 1, fs, FALSE)
               [] OTHER -> out(TRUE, <<>>, FALSE, 1, fs, FALSE)

\* analyze_version_change that also stores the result of a parse failure
analyze_version_change_cache_all(enabled, fs, version_change, o, w) ==
    LET cache_key == get_cache_key(version_change)
        cached == load_from_cache(enabled, fs, cache_key)
        analysis_data == WithScrapeVerification(o.doc)
        out(raised, doc, hit, llm_calls, files, saved) ==
            [raised |-> raised, err |-> IF ~raised THEN "" ELSE IF o.t = "raise" THEN LLMError
                                        ELSE "TypeError",
             doc |-> doc, hit |-> hit, llm_calls |-> llm_calls,
             files |-> files, saved |-> saved, data |-> doc,
             stored |-> saved /\ enabled /\ w = "written",
             write |-> IF ~saved THEN "none" ELSE IF ~enabled THEN "disabled" ELSE w]
    IN  IF Truthy(cached)
        THEN out(FALSE, cached.doc, TRUE, 0, fs, FALSE)
        ELSE CASE o.t = "json" ->
                    out(FALSE, analysis_data, FALSE, 1,
                        save_to_cache(enabled, fs, cache_key, analysis_data, w), TRUE)
               [] o.t = "garbage" ->
                    out(FALSE, ParseErrorAnalysis, FALSE, 1,
                        save_to_cache(enabled, fs, cache_key, ParseErrorAnalysis, w), TRUE)
               [] OTHER -> out(TRUE, <<>>, FALSE, 1, fs, FALSE)

\* OSAgent.analyze_version_change on the files fs: what it gives back (doc,
\* or raised), whether the cache answered (hit), the LLM calls it made, the
\* files it leaves and the data it handed to _save_to_cache (saved, data)
analyze_version_change(enabled, fs, version_change, o, w) ==
    LET cache_key == get_cache_key(version_change)
        cached == load_from_cache(enabled, fs, cache_key)
        analysis_data == WithScrapeVerification(o.doc)
        out(raised, doc, hit, llm_calls, files, saved) ==
            [raised |-> raised, err |-> IF ~raised THEN "" ELSE IF o.t = "raise" THEN LLMError
                                        ELSE "TypeError",
             doc |-> doc, hit |-> hit, llm_calls |-> llm_calls,
             files |-> files, saved |-> saved, data |-> analysis_data,
             stored |-> saved /\ enabled /\ w = "written",
             write |-> IF ~saved THEN "none" ELSE IF ~enabled THEN "disabled" ELSE w]
    IN  IF Truthy(cached)
        THEN out(FALSE, cached.doc, TRUE, 0, fs, FALSE)
        ELSE CASE o.t = "json" ->
                    out(FALSE, analysis_data, FALSE, 1,
                        save_to_cache(enabled, fs, cache_key, analysis_data, w), TRUE)
               [] o.t = "garbage" -> out(FALSE, ParseErrorAnalysis, FALSE, 1, fs, FALSE)
               [] OTHER -> out(TRUE, <<>>, FALSE, 1, fs, FALSE)

\* the cache after a call of analyze_version_change that gave back a
CacheAfter(op, version_change, a) ==
    LET cache_key == get_cache_key(version_change)
    IN  /\ cache_files' = a.files
        /\ put' = IF a.saved
                  THEN [put EXCEPT ![cache_key] =
                           [done |-> TRUE, data |-> a.data, stored |-> a.stored,
                            by |-> version_change]]
                  ELSE put
        /\ cres' = [CRes(op, cache_key, IF a.raised THEN NotCached ELSE Cached(a.doc),
                         a.llm_calls, a.raised) EXCEPT !.write = a.write,
                                                       !.request = version_change]

\* a call of OSAgent.analyze_version_change
AnalyzeVersionChange(version_change, o, w) ==
    /\ CacheAfter("analyze_version_change", version_change,
                  analyze_version_change(enable_caching, cache_files, version_change, o, w))
    /\ UNCHANGED <<enable_caching, gvars, fvars>>

(***************************************************************************)
(* The operations on the graph.  ret records the operation that ran last.  *)
(***************************************************************************)
\* the wiring of freshly constructed agents
NoWiring == [a \in Agents |-> <<>>]

\* op(agent, name / changes) ran: before is the list it works on and wiring
\* the edges as they were when it started, out what it gave back
Ret(op, agent, name, changes, before, wiring, out) ==
    [op |-> op, agent |-> agent, name |-> name, changes |-> changes,
     before |-> before, wiring |-> wiring,
     raised |-> out.raised, err |-> out.err, val |-> out.val, map |-> out.map,
     log |-> out.log, llm |-> out.llm]

Ok == Returned(NoResult, <<>>, 0)

TotalEdges == Len(downstream[OSAgent]) + Len(downstream[KubernetesAgent])
                  + Len(downstream[DatabaseAgent])

\* register_downstream without the membership test
register_downstream_always(ds, self, agent) ==
    [ds EXCEPT ![self] = Append(@, agent)]

\* BaseAgent.register_downstream, on the wiring ds
register_downstream(ds, self, agent) ==
    IF agent \notin Range(ds[self])
    THEN [ds EXCEPT ![self] = Append(@, agent)]
    ELSE ds

\* AgentRegistry.register, on the registry reg
register(reg, agent) ==
    IF agent \in Range(reg) THEN reg ELSE Append(reg, agent)

\* AgentRegistry.get_agent
get_agent(reg, name) == IF name \in Range(reg) THEN name ELSE None

\* BaseAgent.get_downstream_agents
get_downstream_agents(self) == downstream[self]

\* the consumers of each agent are listed last to first
get_dependency_graph_reversed(reg, ds) ==
    [i \in 1..Len(reg) |->
        [name |-> reg[i],
         entry |-> [j \in 1..Len(ds[reg[i]]) |-> ds[reg[i]][Len(ds[reg[i]]) + 1 - j]]]]

\* AgentRegistry.get_dependency_graph on the registry reg and the wiring ds:
\* the dict name -> names of the downstream agents, in insertion order
get_dependency_graph(reg, ds) ==
    [i \in 1..Len(reg) |-> [name |-> reg[i], entry |-> ds[reg[i]]]]

GraphInit ==
    /\ downstream = NoWiring
    /\ registry = <<>>
    /\ ret = Ret("init", None, None, <<>>, <<>>, NoWiring, Ok)
    /\ ConfigInit(0)
    /\ call = IdleCall
    /\ threads = NoThreads
    /\ CacheInit(TRUE)

RegisterDownstream(self, agent) ==
    /\ agent \in Range(downstream[self]) \/ TotalEdges < MaxEdges
    /\ downstream' = register_downstream(downstream, self, agent)
    /\ ret' = Ret("register_downstream", self, agent, <<>>, downstream[self],
                  NoWiring, Ok)
    /\ UNCHANGED <<registry, fvars, cvars>>

Register(agent) ==
    /\ registry' = register(registry, agent)
    /\ ret' = Ret("register", agent, agent, <<>>, registry, NoWiring, Ok)
    /\ UNCHANGED <<downstream, fvars, cvars>>

\* Orchestrator.__init__, lines 57-61, on freshly constructed agents
OrchestratorInit ==
    /\ registry = <<>>
    /\ TotalEdges = 0
    /\ registry' = register(register(registry, OSAgent), KubernetesAgent)
    /\ downstream' = register_downstream(downstream, OSAgent, KubernetesAgent)
    /\ ret' = Ret("orchestrator", None, None, <<>>, <<>>, NoWiring, Ok)
    /\ UNCHANGED <<fvars, cvars>>

\* add_agent that refuses an upstream name it cannot resolve
AddAgent_strict(agent, upstream_agent_name) ==
    LET reg == register(registry, agent)
        upstream == get_agent(reg, upstream_agent_name)
        wire == upstream_agent_name # None /\ upstream # None
    IN  /\ (wire /\ agent \notin Range(downstream[upstream])) => TotalEdges < MaxEdges
        /\ registry' = reg
        /\ downstream' = IF wire THEN register_downstream(downstream, upstream, agent)
                          ELSE downstream
        /\ ret' = Ret("add_agent", agent, upstream_agent_name, <<>>, registry,
                      downstream,
                      IF upstream_agent_name # None /\ upstream = None
                      THEN Raised("KeyError", <<>>, 0) ELSE Ok)
        /\ UNCHANGED <<fvars, cvars>>

\* Orchestrator.add_agent
AddAgent(agent, upstream_agent_name) ==
    LET reg == register(registry, agent)
        upstream == get_agent(reg, upstream_agent_name)
        wire == upstream_agent_name # None /\ upstream # None
    IN  /\ (wire /\ agent \notin Range(downstream[upstream])) => TotalEdges < MaxEdges
        /\ registry' = reg
        /\ downstream' = IF wire THEN register_downstream(downstream, upstream, agent)
                          ELSE downstream
        /\ ret' = Ret("add_agent", agent, upstream_agent_name, <<>>, registry,
                      downstream, Ok)
        /\ UNCHANGED <<fvars, cvars>>

\* a call of propagate_to_downstream on a producer
Propagate(self, my_changes, llm) ==
    /\ ret' = Ret("propagate_to_downstream", self, None, my_changes, downstream[self],
                  NoWiring, propagate_to_downstream(self, my_changes, downstream, llm, 0))
    /\ UNCHANGED <<downstream, registry, fvars, cvars>>

\* a call of analyze_upstream_impact on an agent
AnalyzeUpstreamImpact(self, upstream_changes, llm) ==
    /\ ret' = Ret("analyze_upstream_impact", self, None, upstream_changes,
                  downstream[self], NoWiring, analyze_upstream_impact(self, upstream_changes, downstream, llm, 0))
    /\ UNCHANGED <<downstream, registry, fvars, cvars>>

(***************************************************************************)
(* The root analysis: OSAgent.analyze_changes and the orchestrator's       *)
(* analyze_simple around it.                                               *)
(***************************************************************************)
\* d.get(key, default) on a dict of <<key, value>> pairs
DictGet(doc, key, default) ==
    IF \E i \in 1..Len(doc) : doc[i][1] = key
    THEN doc[CHOOSE i \in 1..Len(doc) : doc[i][1] = key][2]
    ELSE default

\* os_agent.py:632-643, the breaking changes of an analysis as AgentChange
\* items, each with the default severity MEDIUM
ChangesOf(os_analysis) ==
    IF DictGet(os_analysis, "breaking_changes", "[]") = "cgroup v2"
    THEN <<"MEDIUM">>
    ELSE <<>>

\* os_agent.py:645-657
RootKeys == {"changes", "metadata", "mitigation_steps", "recommendations",
             "raw_analysis", "scrape_verification"}

\* analyze_changes that gives up when a consumer's entry carries an error
analyze_changes_fail_fast(enabled, fs, version_change, o, w, ds, llm) ==
    LET a == analyze_version_change(enabled, fs, version_change, o, w)
        changes == ChangesOf(a.doc)
        result == [Result(RootKeys, <<>>, "", "") EXCEPT !.changes = changes]
        p == propagate_to_downstream(OSAgent, changes, ds, llm, 0)
    IN  [a |-> a,
         out |-> IF a.raised THEN Raised(a.err, <<>>, a.llm_calls)
                 ELSE IF ds[OSAgent] = <<>> THEN Returned(result, <<>>, a.llm_calls)
                 ELSE IF p.raised \/ \E i \in 1..Len(p.log) : p.log[i].raised
                 THEN Raised("downstream failed", p.log, a.llm_calls + p.llm)
                 ELSE Returned([result EXCEPT !.keys = @ \cup {"downstream_impacts"},
                                              !.downstream_impacts = p.map],
                               p.log, a.llm_calls + p.llm)]

\* analyze_changes that leaves the consumers alone when the cache answered
analyze_changes_skip_on_hit(enabled, fs, version_change, o, w, ds, llm) ==
    LET a == analyze_version_change(enabled, fs, version_change, o, w)
        changes == ChangesOf(a.doc)
        result == [Result(RootKeys, <<>>, "", "") EXCEPT !.changes = changes]
        p == propagate_to_downstream(OSAgent, changes, ds, llm, 0)
    IN  [a |-> a,
         out |-> IF a.raised THEN Raised(a.err, <<>>, a.llm_calls)
                 ELSE IF ds[OSAgent] = <<>> \/ a.hit THEN Returned(result, <<>>, a.llm_calls)
                 ELSE IF p.raised THEN Raised(p.err, p.log, a.llm_calls + p.llm)
                 ELSE Returned([result EXCEPT !.keys = @ \cup {"downstream_impacts"},
                                              !.downstream_impacts = p.map],
                               p.log, a.llm_calls + p.llm)]

\* OSAgent.analyze_changes: the analysis it ran (a) and what it gives back (out)
analyze_changes(enabled, fs, version_change, o, w, ds, llm) ==
    LET a == analyze_version_change(enabled, fs, version_change, o, w)
        changes == ChangesOf(a.doc)
        result == [Result(RootKeys, <<>>, "", "") EXCEPT !.changes = changes]
        p == propagate_to_downstream(OSAgent, changes, ds, llm, 0)
    IN  [a |-> a,
         out |-> IF a.raised THEN Raised(a.err, <<>>, a.llm_calls)
                 ELSE IF ds[OSAgent] = <<>> THEN Returned(result, <<>>, a.llm_calls)
                 ELSE IF p.raised THEN Raised(p.err, p.log, a.llm_calls + p.llm)
                 ELSE Returned([result EXCEPT !.keys = @ \cup {"downstream_impacts"},
                                              !.downstream_impacts = p.map],
                               p.log, a.llm_calls + p.llm)]

\* orchestrator.py:146-167, the final report built from the OS agent's result
ReportKeys == {"upgrade", "os_analysis", "downstream_impacts", "agent_chain",
               "document_sources"}

\* Orchestrator.analyze_simple, given what analyze_changes gave back
analyze_simple(os_result) ==
    IF os_result.raised THEN os_result
    ELSE Returned([Result(ReportKeys, <<>>, "", "") EXCEPT
                       !.changes = os_result.val.changes,
                       !.downstream_impacts = os_result.val.downstream_impacts],
                  os_result.log, os_result.llm)

\* a call of OSAgent.analyze_changes
AnalyzeChanges(version_change, o, w, llm) ==
    LET r == analyze_changes(enable_caching, cache_files, version_change, o, w,
                             downstream, llm)
    IN  /\ ret' = Ret("analyze_changes", OSAgent, None, <<>>, downstream[OSAgent],
                      NoWiring, r.out)
        /\ CacheAfter("analyze_changes", version_change, r.a)
        /\ UNCHANGED <<downstream, registry, enable_caching, fvars>>

\* a call of analyze_simple on a constructed orchestrator
AnalyzeSimple(version_change, o, w, llm) ==
    LET r == analyze_changes(enable_caching, cache_files, version_change, o, w,
                             downstream, llm)
    IN  /\ OSAgent \in Range(registry)
        /\ ret' = Ret("analyze_simple", OSAgent, None, <<>>, downstream[OSAgent],
                      NoWiring, analyze_simple(r.out))
        /\ CacheAfter("analyze_simple", version_change, r.a)
        /\ UNCHANGED <<downstream, registry, enable_caching, fvars>>

(***************************************************************************)
(* AgentSpec: agents wired through the BaseAgent interface and cascades    *)
(* run on them.                                                            *)
(***************************************************************************)
AgentNext ==
    \/ \E self \in Agents, agent \in Agents : RegisterDownstream(self, agent)
    \/ \E self \in Agents, c \in ChangeBatches, llm \in Oracles : Propagate(self, c, llm)
    \/ \E self \in Agents, c \in ChangeBatches, llm \in Oracles :
           AnalyzeUpstreamImpact(self, c, llm)

AgentSpec == GraphInit /\ [][AgentNext]_vars

(***************************************************************************)
(* RegistrySpec: the orchestrator's registry and the wiring done through   *)
(* it.                                                                     *)
(***************************************************************************)
RegistryNext ==
    \/ \E agent \in Agents : Register(agent)
    \/ OrchestratorInit
    \/ \E agent \in Agents, n \in Agents \cup {None, UnknownName} : AddAgent(agent, n)
    \/ \E self \in Agents, agent \in Agents : RegisterDownstream(self, agent)

RegistrySpec == GraphInit /\ [][RegistryNext]_vars

(***************************************************************************)
(* RootSpec: root analyses on the orchestrator's agents and on agents      *)
(* wired by hand, under a configuration with one fallback key.             *)
(***************************************************************************)
\* the inputs of the root analyses: the requests, how the cache write goes
\* and what the consumers' LLM calls give
RootRequests == {vc \in VersionChanges : vc.from_version # vc.to_version}
RootOutcomes == {o \in OSOutcomes : o.t # "nondict"}
RootWrites == {"written"}
RootOracles ==
    {llm \in Oracles :
        \A a \in LLMAgents : llm[a].t \in {"raise", "garbage"} \/ llm[a].impacts = <<"HIGH">>}

RootInit ==
    /\ downstream = NoWiring
    /\ registry = <<>>
    /\ ret = Ret("init", None, None, <<>>, <<>>, NoWiring, Ok)
    /\ ConfigInit(1)
    /\ call = IdleCall
    /\ threads = NoThreads
    /\ CacheInit(TRUE)

RootNext ==
    \/ OrchestratorInit
    \/ \E self \in Agents, agent \in Agents : RegisterDownstream(self, agent)
    \/ \E vc \in RootRequests, o \in RootOutcomes, w \in RootWrites, llm \in RootOracles :
           AnalyzeChanges(vc, o, w, llm)
    \/ \E vc \in RootRequests, o \in RootOutcomes, w \in RootWrites, llm \in RootOracles :
           AnalyzeSimple(vc, o, w, llm)

RootSpec == RootInit /\ [][RootNext]_vars

(***************************************************************************)
(* FailoverSpec: calls of execute_with_fallback on one configuration.      *)
(***************************************************************************)
FailoverInit ==
    /\ downstream = NoWiring
    /\ registry = <<>>
    /\ ret = Ret("init", None, None, <<>>, <<>>, NoWiring, Ok)
    /\ \E n \in 0..MaxFallbacks : ConfigInit(n)
    /\ call = IdleCall
    /\ threads = NoThreads
    /\ CacheInit(TRUE)

FailoverNext ==
    \/ \E bound \in BOOLEAN : StartCall(bound)
    \/ \E e \in ErrorTexts \cup {NoError} : Iterate(e)

FailoverSpec == FailoverInit /\ [][FailoverNext]_vars

\* a call that was started is run to its end
FairFailoverSpec == FailoverSpec /\ WF_vars(\E e \in ErrorTexts \cup {NoError} : Iterate(e))

(***************************************************************************)
(* ConcurrentSpec: two callers inside execute_with_fallback on one         *)
(* configuration; a thread can be preempted between the failing call and   *)
(* its except branch.                                                      *)
(***************************************************************************)
ConcurrentInit ==
    /\ downstream = NoWiring
    /\ registry = <<>>
    /\ ret = Ret("init", None, None, <<>>, <<>>, NoWiring, Ok)
    /\ \E n \in 1..MaxFallbacks : ConfigInit(n)
    /\ call = IdleCall
    /\ threads = NoThreads
    /\ CacheInit(TRUE)

ConcurrentNext ==
    \/ \E t \in Callers : ThreadStart(t)
    \/ \E t \in Callers, e \in ThreadErrors \cup {NoError} : ThreadInvoke(t, e)
    \/ \E t \in Callers : ThreadHandle(t)

ConcurrentSpec == ConcurrentInit /\ [][ConcurrentNext]_vars

(***************************************************************************)
(* CacheSpec: the OS agent's cache under saves, loads, root analyses and   *)
(* manual deletions.                                                       *)
(***************************************************************************)
CacheSpecInit ==
    /\ downstream = NoWiring
    /\ registry = <<>>
    /\ ret = Ret("init", None, None, <<>>, <<>>, NoWiring, Ok)
    /\ ConfigInit(0)
    /\ call = IdleCall
    /\ threads = NoThreads
    /\ \E enabled \in BOOLEAN : CacheInit(enabled)

CacheNext ==
    \/ \E k \in CacheKeys, v \in CacheValues, w \in WriteOutcomes : SaveToCache(k, v, w)
    \/ \E k \in CacheKeys : LoadFromCache(k)
    \/ \E k \in CacheKeys : DeleteEntry(k)
    \/ \E vc \in VersionChanges, o \in OSOutcomes, w \in WriteOutcomes :
           AnalyzeVersionChange(vc, o, w)

CacheSpec == CacheSpecInit /\ [][CacheNext]_vars

(***************************************************************************)
(* KeySpec: analyses of requests that differ in their layer and whose      *)
(* version strings hold the separator of the key string.                   *)
(***************************************************************************)
KeyLayers == {"OS", "Kubernetes"}
KeyFromVersions == {<<"15">>, <<"15", ":", "6">>}
KeyToVersions == {<<"16">>, <<"6", ":", "16">>}

KeyRequests ==
    [layer : KeyLayers, from_version : KeyFromVersions, to_version : KeyToVersions,
     workload : Workloads]

KeyOutcomes == {o \in OSOutcomes : o.t \in {"json", "garbage"}}

KeyInit ==
    /\ downstream = NoWiring
    /\ registry = <<>>
    /\ ret = Ret("init", None, None, <<>>, <<>>, NoWiring, Ok)
    /\ ConfigInit(0)
    /\ call = IdleCall
    /\ threads = NoThreads
    /\ enable_caching = TRUE
    /\ cache_files = [f \in {cache_file(get_cache_key(vc)) : vc \in KeyRequests} |-> NoFile]
    /\ put = [k \in {get_cache_key(vc) : vc \in KeyRequests} |-> NoPut]
    /\ cres = CRes("init", <<>>, NotCached, 0, FALSE)

KeyNext ==
    \/ \E vc \in KeyRequests, o \in KeyOutcomes : AnalyzeVersionChange(vc, o, "written")
    \/ \E vc \in KeyRequests : DeleteEntry(get_cache_key(vc))

KeySpec == KeyInit /\ [][KeyNext]_vars

(***************************************************************************)
(* Properties of the propagation engine (AgentSpec).                       *)
(***************************************************************************)
\* the calls of c.analyze_upstream_impact made by the propagate call itself
TopCalls(c) ==
    {i \in 1..Len(ret.log) : ret.log[i].depth = 0 /\ ret.log[i].consumer = c}

IsPropagate == ret.op = "propagate_to_downstream"

\* C1: when a producer has two or more consumers and the analyze_upstream_impact
\* of one of them raises, propagate_to_downstream returns normally, every
\* consumer has been invoked, the failing consumer's entry is error-shaped
\* (error set, impacts empty) and every other consumer's entry is its result.
C1_PropagationIsolation ==
    (/\ IsPropagate
     /\ Len(ret.before) >= 2
     /\ \E i \in 1..Len(ret.log) : ret.log[i].depth = 0 /\ ret.log[i].raised)
    => /\ ~ret.raised
       /\ \A c \in Range(ret.before) :
            /\ c \in MapKeys(ret.map)
            /\ \E i \in TopCalls(c) :
                 LET e == MapGet(ret.map, c)
                 IN  IF ret.log[i].raised
                     THEN /\ {"error", "impacts"} \subseteq e.keys
                          /\ e.error = ret.log[i].err
                          /\ e.impacts = <<>>
                     ELSE e = ret.log[i].val

\* a failing consumer between two succeeding ones
C1_Witness ==
    /\ IsPropagate
    /\ ~ret.raised
    /\ Len(ret.before) = 3
    /\ \E i \in TopCalls(ret.before[1]), j \in TopCalls(ret.before[2]),
          k \in TopCalls(ret.before[3]) :
            /\ ~ret.log[i].raised /\ ret.log[j].raised /\ ~ret.log[k].raised
            /\ MapGet(ret.map, ret.before[3]).impacts # <<>>

\* C6: analyze_upstream_impact([]) of every agent returns risk_level LOW and
\* no impacts, does not raise and makes no LLM call, whether called directly
\* or by a cascade.
EmptyImpactShape(v) ==
    /\ {"impacts", "risk_level"} \subseteq v.keys
    /\ v.risk_level = "LOW"
    /\ v.impacts = <<>>

C6_EmptyUpstream ==
    /\ (ret.op = "analyze_upstream_impact" /\ ret.changes = <<>>)
          => ~ret.raised /\ EmptyImpactShape(ret.val) /\ ret.llm = 0
    /\ (IsPropagate /\ ret.changes = <<>>)
          => /\ ret.llm = 0
             /\ \A i \in 1..Len(ret.log) :
                  ret.log[i].upstream = <<>>
                      => ~ret.log[i].raised /\ EmptyImpactShape(ret.log[i].val)

\* all three agents were handed the empty batch
C6_Witness ==
    /\ IsPropagate
    /\ ret.changes = <<>>
    /\ {ret.log[i].consumer : i \in 1..Len(ret.log)} = Agents

\* C7: registering a consumer that is already registered leaves the
\* producer's downstream list as it was, and a propagate call invokes each
\* registered consumer exactly once.
C7_RegisterIdempotent ==
    /\ (ret.op = "register_downstream" /\ ret.name \in Range(ret.before))
          => get_downstream_agents(ret.agent) = ret.before
    /\ IsPropagate
          => \A c \in Range(get_downstream_agents(ret.agent)) : Cardinality(TopCalls(c)) = 1

\* the first of two consumers was registered again
C7_Witness ==
    /\ ret.op = "register_downstream"
    /\ Len(ret.before) >= 2
    /\ ret.name = ret.before[1]

\* an entry of the returned mapping is a result or the error-shaped entry
NormalEntry(e) == {"impacts", "risk_level"} \subseteq e.keys /\ "error" \notin e.keys
ParseErrorEntry(e) == {"impacts", "risk_level", "error"} \subseteq e.keys
ErrorShaped(e) == e.keys = {"error", "impacts"} /\ e.impacts = <<>>

\* C11: the mapping returned by propagate_to_downstream has exactly the names
\* of the producer's registered consumers as its keys, each with a result or
\* an error-shaped entry; with no consumer the call returns the empty mapping
\* without invoking any analysis, and it never raises.
C11_ResultKeySet ==
    IsPropagate
    => /\ ~ret.raised
       /\ MapKeys(ret.map) = Range(ret.before)
       /\ Len(ret.map) = Cardinality(Range(ret.before))
       /\ \A i \in 1..Len(ret.map) :
            \/ NormalEntry(ret.map[i].entry)
            \/ ParseErrorEntry(ret.map[i].entry)
            \/ ErrorShaped(ret.map[i].entry)
       /\ ret.before = <<>> => (ret.map = <<>> /\ ret.log = <<>> /\ ret.llm = 0)

\* three consumers, one of which failed
C11_Witness ==
    /\ IsPropagate
    /\ Len(ret.before) = 3
    /\ Len(ret.map) = 3
    /\ \E i, j \in 1..3 : ErrorShaped(ret.map[i].entry) /\ NormalEntry(ret.map[j].entry)

\* the positions in the log of the calls made by the propagate call itself
TopPositions == {i \in 1..Len(ret.log) : ret.log[i].depth = 0}

\* the position of the i-th of them
RECURSIVE NthTop(_)
NthTop(i) ==
    IF i = 1 THEN CHOOSE p \in TopPositions : \A q \in TopPositions : p <= q
    ELSE CHOOSE p \in TopPositions :
             /\ p > NthTop(i - 1)
             /\ \A q \in TopPositions : q > NthTop(i - 1) => p <= q

\* C12: within one propagate_to_downstream call the consumers are invoked in
\* the order of their registration, everything a consumer's analysis starts
\* is invoked before the next sibling is, and the entries of the returned
\* mapping are in registration order.
C12_Ordering ==
    IsPropagate
    => /\ Cardinality(TopPositions) = Len(ret.before)
       /\ Len(ret.map) = Len(ret.before)
       /\ \A i \in 1..Len(ret.before) :
            /\ ret.map[i].name = ret.before[i]
            /\ ret.log[NthTop(i)].consumer = ret.before[i]
            /\ \A p \in 1..Len(ret.log) :
                 (/\ p > NthTop(i)
                  /\ i < Len(ret.before) => p < NthTop(i + 1)
                  /\ ret.log[p].depth <= 2)
                 => (ret.log[p].depth > 0 /\ ret.log[p].producer = ret.before[i])

\* the first of two consumers ran a cascade of its own before the second was invoked
C12_Witness ==
    /\ IsPropagate
    /\ Len(ret.before) = 2
    /\ Cardinality(TopPositions) = 2
    /\ NthTop(2) > 2
    /\ Len(ret.map) = 2

\* the most severe of the severities of a non-empty list of impacts
Rank(sev) == CASE sev = "CRITICAL" -> 4 [] sev = "HIGH" -> 3 [] sev = "MEDIUM" -> 2
               [] OTHER -> 1

MostSevere(impacts) ==
    CHOOSE sev \in Range(impacts) : \A other \in Range(impacts) : Rank(other) <= Rank(sev)

\* C18 as stated: an analysis whose LLM output is not a JSON object does not
\* raise, and the result it returns after a parse failure has risk_level
\* UNKNOWN and keeps the raw text.
C18_ParseFailureRecovery ==
    ret.op = "analyze_upstream_impact"
    => /\ ~(ret.raised /\ ret.err = "AttributeError")
       /\ (~ret.raised /\ "error" \in ret.val.keys)
            => (ret.val.risk_level = "UNKNOWN" /\ "raw_response" \in ret.val.keys)

\* C19 as stated: the risk_level of a result with impacts is the most severe
\* severity among them, and UNKNOWN after a parse failure.
C19_RiskLevelInvariant ==
    (ret.op = "analyze_upstream_impact" /\ ~ret.raised)
    => /\ "error" \in ret.val.keys => ret.val.risk_level = "UNKNOWN"
       /\ ("error" \notin ret.val.keys /\ ret.val.impacts # <<>>)
            => ret.val.risk_level = MostSevere(ret.val.impacts)

(***************************************************************************)
(* Properties of the root analysis (RootSpec).                             *)
(***************************************************************************)
IsRoot == ret.op \in {"analyze_changes", "analyze_simple"}

\* the mapping m returned to owner and every mapping nested in its entries,
\* each with the agent whose propagate call returned it
RECURSIVE NestedMaps(_, _)
NestedMaps(owner, m) ==
    {[owner |-> owner, map |-> m]}
        \cup UNION {NestedMaps(m[i].name, m[i].entry.downstream_impacts) : i \in 1..Len(m)}
        \cup UNION {NestedMaps(m[i].name, m[i].entry.downstream) : i \in 1..Len(m)}

\* C13: a root analysis (analyze_changes, analyze_simple) raises exactly when
\* the root's own analysis raised; when a consumer's analysis raises at any
\* depth the root call returns and the mapping its producer got holds an
\* error-shaped entry with that error in the consumer's slot.
C13_RootOutcome ==
    IsRoot
    => /\ ret.raised <=> cres.raised
       /\ ~ret.raised
            => \A i \in 1..Len(ret.log) :
                 ret.log[i].raised
                 => \E nm \in NestedMaps(OSAgent, ret.val.downstream_impacts) :
                      /\ nm.owner = ret.log[i].producer
                      /\ ret.log[i].consumer \in MapKeys(nm.map)
                      /\ ErrorShaped(MapGet(nm.map, ret.log[i].consumer))
                      /\ MapGet(nm.map, ret.log[i].consumer).error = ret.log[i].err

\* analyze_simple returned although a consumer of a consumer failed
C13_Witness ==
    /\ ret.op = "analyze_simple"
    /\ ~ret.raised
    /\ \E i \in 1..Len(ret.log) :
         /\ ret.log[i].depth >= 2
         /\ ret.log[i].raised
         /\ ret.log[i].producer # OSAgent

\* C14 as stated: with a fallback key left, no reasoning call of a cascade,
\* the root's or a consumer's, ends its node's analysis with a
\* quota-classified error: the pool is rotated and the call retried.
C14_FailoverCoversCalls ==
    (IsRoot /\ fallback_api_keys # <<>>)
    => /\ ~(ret.raised /\ IsKeyError(Characters(ret.err)))
       /\ \A i \in 1..Len(ret.log) :
            ~(ret.log[i].raised /\ IsKeyError(Characters(ret.log[i].err)))

\* the cache entry of the request key before and after a step
RootGet(cache_key) == load_from_cache(enable_caching, cache_files, cache_key)

\* C16: a root analysis whose key has a cache entry returns the cached value
\* and makes no LLM call of its own; a root analysis makes its LLM call only
\* when the lookup of its key missed.
C16_CacheBeforeReasoning ==
    [][\A k \in CacheKeys :
          (ret'.op \in {"analyze_changes", "analyze_simple"} /\ cres'.key = k)
          => IF RootGet(k).found
             THEN /\ cres'.llm_calls = 0
                  /\ ~cres'.raised
                  /\ cres'.doc = RootGet(k).doc
                  /\ UNCHANGED cache_files
             ELSE cres'.llm_calls = 1]_vars

\* a root analysis answered from the cache, its consumers analysed all the same
C16_Witness ==
    /\ IsRoot
    /\ cres.llm_calls = 0
    /\ cres.found
    /\ cres.doc = put[cres.key].data
    /\ ret.llm >= 1

(***************************************************************************)
(* Properties of the credential failover executor (FailoverSpec).          *)
(***************************************************************************)
\* the error text carries one of the four markers, in any letter case
HasMarker(e) ==
    \/ Contains(lower(e), <<"r", "a", "t", "e", " ", "l", "i", "m", "i", "t">>)
    \/ Contains(lower(e), <<"q", "u", "o", "t", "a">>)
    \/ Contains(lower(e), <<"i", "n", "s", "u", "f", "f", "i", "c", "i", "e", "n", "t">>)
    \/ Contains(lower(e), <<"l", "i", "m", "i", "t", " ", "e", "x", "c", "e", "e", "d", "e", "d">>)

Invocations == Len(call.hist)
LastAttempt == call.hist[Len(call.hist)]

\* the first j invocations failed with a quota-classified error, the next succeeded
QuotaThenSuccess(j) ==
    /\ Invocations = j + 1
    /\ \A i \in 1..j : call.hist[i].error # NoError /\ HasMarker(call.hist[i].error)
    /\ call.hist[j + 1].error = NoError

\* C2: with n >= 1 fallback keys, when the call fails with a quota-classified
\* error on the first j keys (1 <= j <= n) and succeeds on key j+1,
\* execute_with_fallback has returned that result after these j+1
\* invocations, each made under the next key of the pool, and key j+1 is
\* the active key.
C2_FailoverSuccess ==
    \A j \in 1..(Len(call.start) - 1) :
        QuotaThenSuccess(j)
        => /\ call.pc = "returned"
           /\ call.result = "response"
           /\ \A i \in 1..(j + 1) : call.hist[i].key = call.start[i]
           /\ current_api_key = call.start[j + 1]
           /\ fallback_api_keys = SubSeq(call.start, j + 2, Len(call.start))

\* two keys failed, the third of three succeeded
C2_Witness ==
    /\ Len(call.start) = 3
    /\ QuotaThenSuccess(2)
    /\ call.pc = "returned"

\* C3: when an invocation fails with a credential-classified error and no
\* fallback key is left, the call ends there by raising an error and gives
\* back no value; with no fallback key configured that is after exactly one
\* invocation.
C3_Exhaustion ==
    (/\ Invocations >= 1
     /\ LastAttempt.error # NoError
     /\ HasMarker(LastAttempt.error)
     /\ LastAttempt.fallbacks = <<>>)
    => /\ call.pc = "raised"
       /\ call.error # NoError
       /\ call.result = ""
       /\ Len(call.start) = 1 => Invocations = 1

\* the only key of a pool without fallbacks hit its quota
C3_Witness ==
    /\ call.pc = "raised"
    /\ Len(call.start) = 1
    /\ Invocations = 1
    /\ HasMarker(LastAttempt.error)

\* C4: a call never invokes the callable more often than 1 + the number of
\* fallback keys it started with, and every call that was started ends.
C4_AttemptBound ==
    /\ [](Invocations <= Len(call.start))
    /\ (Running ~> Ended)

\* a call that used every key of a pool of three
C4_Witness ==
    /\ Ended
    /\ Len(call.start) = 3
    /\ Invocations = 3

\* C5: an error without any of the markers is re-raised as it is, ends the
\* call without another invocation and leaves the active key and the
\* fallback list as they were.
C5_OtherErrorsPassThrough ==
    (/\ Invocations >= 1
     /\ LastAttempt.error # NoError
     /\ ~HasMarker(LastAttempt.error))
    => /\ call.pc = "raised"
       /\ call.error = LastAttempt.error
       /\ current_api_key = LastAttempt.key
       /\ fallback_api_keys = LastAttempt.fallbacks
       /\ llm_key = LastAttempt.llm

\* after one rotation, with a fallback key still left, a timeout ended the call
C5_Witness ==
    /\ Invocations = 2
    /\ ~HasMarker(LastAttempt.error)
    /\ LastAttempt.error # NoError
    /\ fallback_api_keys # <<>>
    /\ call.pc = "raised"

\* C15 as stated: every invocation of the callable is issued by a client that
\* was built with the key that is active at that time, and between calls the
\* client holds the active key.
C15_ActiveCredentialUsed ==
    /\ \A i \in 1..Len(call.hist) : call.hist[i].llm = call.hist[i].key
    /\ llm_key = current_api_key

(***************************************************************************)
(* Properties of the OS agent's cache (CacheSpec).                         *)
(***************************************************************************)
Get(cache_key) == load_from_cache(enable_caching, cache_files, cache_key)

\* C17: when the write of a freshly computed analysis to the cache fails,
\* analyze_version_change still returns the analysis it computed and does not
\* raise.
C17_CacheWriteFailureSwallowed ==
    (cres.op = "analyze_version_change" /\ cres.write \in {"open fails", "dump fails"})
    => /\ ~cres.raised
       /\ cres.found
       /\ cres.llm_calls = 1
       /\ cres.doc = put[cres.key].data
       /\ "scrape_verification" \in {cres.doc[i][1] : i \in 1..Len(cres.doc)}

\* an analysis with a breaking change was returned although json.dump failed
C17_Witness ==
    /\ cres.op = "analyze_version_change"
    /\ cres.write = "dump fails"
    /\ ~cres.raised
    /\ Len(cres.doc) = 2
    /\ ~Get(cres.key).found

\* C8 as stated: after a Put(key, v) a later Get(key) reports a hit with value
\* v, whatever was done to other keys in between, as long as the entry was not
\* deleted; a Get on a key that was never written reports not found.
C8_RoundTrip_AsStated ==
    \A k \in CacheKeys :
        /\ put[k].done => Get(k) = Cached(put[k].data)
        /\ ~put[k].done => Get(k) = NotCached

\* C8: with caching enabled, after a Put(key, v) whose write completed, a later
\* Get(key) reports a hit with value v, whatever was done to other keys in
\* between, until the entry is deleted or written again, and
\* analyze_version_change returns v when v is not empty; with caching disabled
\* every Get reports not found; a Get on a key that was never written reports
\* not found.
C8_CacheRoundTrip ==
    /\ \A k \in CacheKeys :
           /\ (enable_caching /\ put[k].stored) => Get(k) = Cached(put[k].data)
           /\ ~put[k].done => Get(k) = NotCached
           /\ ~enable_caching => Get(k) = NotCached
    /\ (/\ cres.op = "analyze_version_change"
        /\ enable_caching
        /\ put[cres.key].stored
        /\ put[cres.key].data # EmptyDict)
           => (cres.found /\ cres.doc = put[cres.key].data)

\* a value stored under one key is read back after another key was written with
\* a different value
C8_Witness ==
    \E k \in CacheKeys, other \in CacheKeys :
        /\ k # other
        /\ put[k].stored
        /\ put[other].stored
        /\ put[other].data # put[k].data
        /\ cres.op = "load"
        /\ cres.key = k
        /\ cres.found
        /\ cres.doc = put[k].data

(***************************************************************************)
(* Properties of the registry (RegistrySpec).                              *)
(***************************************************************************)
\* C9 as stated: register(node) fails when a node of the same name is already
\* registered, and the registry is left as it was.
C9_RegisterDuplicateFails ==
    (ret.op = "register" /\ ret.name \in Range(ret.before))
        => (ret.raised /\ registry = ret.before)

\* the agents reached from a by one or more edges of the wiring ds
RECURSIVE ReachableFrom(_, _, _)
ReachableFrom(ds, seen, frontier) ==
    IF frontier \subseteq seen THEN seen
    ELSE ReachableFrom(ds, seen \cup frontier,
                       UNION {Range(ds[b]) : b \in frontier})

Consumers(ds, a) == ReachableFrom(ds, {}, Range(ds[a]))

\* C20 as stated: after any sequence of register, register_downstream and
\* add_agent operations no agent is its own consumer, directly or through
\* other agents.
C20_Acyclic ==
    \A a \in Agents : a \notin Consumers(downstream, a)

\* C10 as stated: add_agent with an upstream name that is not registered raises.
C10_UnknownUpstreamRaises ==
    (ret.op = "add_agent" /\ ret.name # None /\ get_agent(registry, ret.name) = None)
        => ret.raised

\* C10: add_agent with an upstream name that is not registered returns
\* normally: the new agent is registered and no edge is added.
C10_UnknownUpstreamIgnored ==
    (ret.op = "add_agent" /\ ret.name # None /\ get_agent(registry, ret.name) = None)
        => /\ ~ret.raised
           /\ ret.agent \in Range(registry)
           /\ downstream = ret.wiring

\* an agent was added under an unknown upstream name to a populated registry
C10_Witness ==
    /\ ret.op = "add_agent"
    /\ ret.name = UnknownName
    /\ Len(ret.before) >= 1
    /\ ret.agent \notin Range(ret.before)
    /\ TotalEdges >= 1

(***************************************************************************)
(* Properties of the cache key (KeySpec).                                  *)
(***************************************************************************)
\* two requests name the same source version, target version and workload
SameUpgrade(a, b) ==
    /\ a.from_version = b.from_version
    /\ a.to_version = b.to_version
    /\ a.workload = b.workload

\* the analysis was answered from the cache
CacheHit == cres.op = "analyze_version_change" /\ cres.llm_calls = 0 /\ ~cres.raised

\* C21: two requests with the same source version, target version and
\* workload have the same cache key whatever their layer is, so on every
\* state of the cache analyze_version_change does the same for both.
C21_KeyIgnoresLayer ==
    \A a \in KeyRequests, b \in KeyRequests :
        SameUpgrade(a, b)
        => /\ get_cache_key(a) = get_cache_key(b)
           /\ \A o \in KeyOutcomes :
                analyze_version_change(enable_caching, cache_files, a, o, "written")
                    = analyze_version_change(enable_caching, cache_files, b, o, "written")

\* a request was answered with the entry written for the same upgrade under
\* another layer
C21_Witness ==
    /\ CacheHit
    /\ put[cres.key].stored
    /\ SameUpgrade(cres.request, put[cres.key].by)
    /\ cres.request.layer # put[cres.key].by.layer
    /\ cres.doc = put[cres.key].data

\* C30 as stated: two requests that differ in source version, target version
\* or workload have different cache keys, and no request is answered with the
\* analysis cached for a different upgrade.
C30_KeySeparatesRequests ==
    /\ \A a \in KeyRequests, b \in KeyRequests :
           ~SameUpgrade(a, b) => get_cache_key(a) # get_cache_key(b)
    /\ (CacheHit /\ put[cres.key].stored) => SameUpgrade(cres.request, put[cres.key].by)

(***************************************************************************)
(* Properties of the dependency graph snapshot (RegistrySpec).             *)
(***************************************************************************)
Snapshot == get_dependency_graph(registry, downstream)

\* C22 as stated: the keys of get_dependency_graph() are the registered names,
\* the value of each is the list of its consumers in registration order, and
\* every edge wired so far is in the snapshot.
C22_SnapshotHoldsEveryEdge ==
    /\ MapKeys(Snapshot) = Range(registry)
    /\ \A n \in Range(registry) : MapGet(Snapshot, n) = downstream[n]
    /\ \A a \in Agents :
         downstream[a] # <<>>
         => (a \in MapKeys(Snapshot) /\ Range(downstream[a]) = Range(MapGet(Snapshot, a)))

\* C22: the keys of get_dependency_graph() are the registered names, in the
\* order of their registration; the value of each is the list of its consumers
\* in registration order, registered or not; the snapshot holds the edges of
\* the registered producers and no other edge.
C22_DependencyGraphSnapshot ==
    /\ Len(Snapshot) = Len(registry)
    /\ \A i \in 1..Len(registry) :
         /\ Snapshot[i].name = registry[i]
         /\ Snapshot[i].entry = downstream[registry[i]]
    /\ \A a \in Agents, b \in Agents :
         (a \in MapKeys(Snapshot) /\ b \in Range(MapGet(Snapshot, a)))
             <=> (a \in Range(registry) /\ b \in Range(downstream[a]))

\* a registered producer with two consumers, one of them not registered, and
\* an edge of a producer that is not registered
C22_Witness ==
    /\ Len(registry) = 2
    /\ \E a \in Range(registry) :
         /\ Len(downstream[a]) = 2
         /\ \E b \in Range(downstream[a]) : b \notin Range(registry)
    /\ \E c \in Agents : c \notin Range(registry) /\ downstream[c] # <<>>

(***************************************************************************)
(* Properties of concurrent callers (ConcurrentSpec).                      *)
(***************************************************************************)
\* the keys that were active at some invocation of some caller
TriedKeys == UNION {Range(threads[t].tried) : t \in Callers}

\* C23 as stated: two concurrent callers that saw the same active key fail do
\* not both rotate the pool, and no key is passed over without having been
\* active at an invocation.
C23_NoDoubleRotation ==
    /\ \A t \in Callers, u \in Callers :
         t # u => Range(threads[t].rotated) \cap Range(threads[u].rotated) = {}
    /\ \A k \in 0..MaxFallbacks : k < current_api_key => k \in TriedKeys

(***************************************************************************)
(* Properties of the cascade over the whole graph (AgentSpec, RootSpec).   *)
(***************************************************************************)
Acyclic(ds) == \A a \in Agents : a \notin Consumers(ds, a)

\* C24 as stated: an entry of the mapping returned by propagate_to_downstream
\* has a `downstream` field exactly when the consumer's analysis gave
\* findings and the consumer has consumers of its own.
C24_NestedDownstreamField ==
    IsPropagate
    => \A i \in 1..Len(ret.map) :
         "downstream" \in ret.map[i].entry.keys
             <=> (/\ NormalEntry(ret.map[i].entry)
                  /\ ret.map[i].entry.impacts # <<>>
                  /\ downstream[ret.map[i].name] # <<>>)

\* every analysis of the cascade returned findings
AllSucceeded ==
    \A i \in 1..Len(ret.log) : ~ret.log[i].raised /\ ret.log[i].val.impacts # <<>>

\* C25 as stated: in a root cascade over an acyclic graph in which every
\* analysis returns findings, every agent reachable from the root is invoked
\* and has an entry in the mapping of a producer.
C25_TransitiveWalk ==
    (/\ IsRoot
     /\ ~ret.raised
     /\ Acyclic(downstream)
     /\ ret.val.changes # <<>>
     /\ AllSucceeded)
    => \A n \in Consumers(downstream, OSAgent) :
         /\ \E i \in 1..Len(ret.log) : ret.log[i].consumer = n
         /\ \E nm \in NestedMaps(OSAgent, ret.val.downstream_impacts) : n \in MapKeys(nm.map)

\* the number of paths of one or more edges that start at a
RECURSIVE PathCount(_, _)
RECURSIVE PathCountFrom(_, _, _)
PathCountFrom(ds, a, i) ==
    IF i > Len(ds[a]) THEN 0
    ELSE 1 + PathCount(ds, ds[a][i]) + PathCountFrom(ds, a, i + 1)

PathCount(ds, a) == PathCountFrom(ds, a, 1)

\* the mappings a cascade gave back, at every level
CascadeMaps ==
    IF IsPropagate THEN NestedMaps(ret.agent, ret.map)
    ELSE NestedMaps(ret.agent, ret.val.downstream_impacts)

\* C26: on an acyclic graph a cascade started at any agent, by
\* propagate_to_downstream or by analyze_upstream_impact, ends without
\* running into the recursion limit, after at most one analyze_upstream_impact
\* invocation per path from the starting agent.
C26_CascadeTermination ==
    (ret.op \in {"propagate_to_downstream", "analyze_upstream_impact"} /\ Acyclic(downstream))
    => /\ ret.err # "RecursionError"
       /\ \A i \in 1..Len(ret.log) : ret.log[i].err # "RecursionError"
       /\ \A nm \in CascadeMaps :
            \A i \in 1..Len(nm.map) : nm.map[i].entry.error # "RecursionError"
       /\ Len(ret.log) <= PathCount(downstream, ret.agent)
       /\ IsPropagate => ~ret.raised

\* a cascade over the three paths of the graph OS -> Kubernetes -> Database,
\* OS -> Database
C26_Witness ==
    /\ IsPropagate
    /\ Acyclic(downstream)
    /\ Len(ret.log) = 3
    /\ PathCount(downstream, ret.agent) = 3
    /\ \E i \in 1..3 : ret.log[i].depth = 2

(***************************************************************************)
(* Properties of the credential pool over a sequence of calls              *)
(* (FailoverSpec).  A credential is its position in the configured order:  *)
(* 0 is the primary key, i the i-th fallback.                              *)
(***************************************************************************)
\* C27: over any sequence of execute_with_fallback calls on one
\* configuration the fallback list never grows; the active credential
\* changes only to the head of the list, which is removed from it, so that
\* fallbacks become active in their configured order, each at most once, and
\* no credential that was rotated away from is active or listed again; a
\* call that starts later starts with the pool the earlier calls left.
C27_CredentialsConsumedInOrder ==
    [][/\ Len(fallback_api_keys') <= Len(fallback_api_keys)
       /\ current_api_key' # current_api_key
            => /\ fallback_api_keys # <<>>
               /\ current_api_key' = Head(fallback_api_keys)
               /\ fallback_api_keys' = Tail(fallback_api_keys)
               /\ current_api_key' > current_api_key
       /\ fallback_api_keys' # fallback_api_keys => current_api_key' # current_api_key
       /\ \A k \in Range(fallback_api_keys') : k > current_api_key'
       /\ \A i \in 1..Len(fallback_api_keys') - 1 :
            fallback_api_keys'[i] < fallback_api_keys'[i + 1]
       /\ (call.pc # "loop" /\ call'.pc = "loop")
            => call'.start = <<current_api_key>> \o fallback_api_keys]_vars

\* a call that started after the primary key had been consumed, and that
\* consumed the first fallback in its turn
C27_Witness ==
    /\ call.start = <<1, 2>>
    /\ current_api_key = 2
    /\ fallback_api_keys = <<>>
    /\ call.pc = "returned"

(***************************************************************************)
(* Properties of what analyze_version_change stores (CacheSpec).           *)
(***************************************************************************)
\* analyze_version_change gave back the result of a parse failure
ParseFailureResult(c) ==
    /\ c.op = "analyze_version_change"
    /\ ~c.raised
    /\ "parse_error" \in {c.doc[i][1] : i \in 1..Len(c.doc)}

\* C28: a call of analyze_version_change whose reasoning output does not
\* parse returns the parse-failure result after one reasoning call, hands
\* nothing to the cache and leaves the files as they were, so the key has no
\* entry afterwards; if the next call is for the same key it misses the cache
\* and makes a reasoning call of its own.  What analyze_version_change hands
\* to the cache is always a parsed output.
C28_OnlyParsedResultsCached ==
    [][/\ ParseFailureResult(cres') /\ cres' # cres
            => /\ cres'.llm_calls = 1
               /\ cres'.write = "none"
               /\ cache_files' = cache_files
               /\ put' = put
               /\ ~Truthy(load_from_cache(enable_caching', cache_files', cres'.key))
       /\ (/\ ParseFailureResult(cres)
           /\ cres'.op = "analyze_version_change"
           /\ cres'.key = cres.key)
            => cres'.llm_calls = 1
       /\ \A k \in CacheKeys :
            (put'[k].done /\ put'[k].by # NoRequest)
            => "parse_error" \notin {put'[k].data[i][1] : i \in 1..Len(put'[k].data)}]_vars

\* with the cache enabled, a parse failure for a key that an earlier call
\* had tried to store: the key has no entry
C28_Witness ==
    /\ enable_caching
    /\ ParseFailureResult(cres)
    /\ cres.llm_calls = 1
    /\ put[cres.key].done
    /\ ~Get(cres.key).found

(***************************************************************************)
(* Properties of a root analysis answered from the cache (RootSpec).       *)
(***************************************************************************)
\* the root analysis was answered from the cache
ServedFromCache == IsRoot /\ ~cres.raised /\ cres.llm_calls = 0

\* C29: when the root analysis is served from the cache, the change records
\* are those of the cached findings and every consumer wired to the root is
\* invoked with them by the root's propagate, each LLM-backed consumer making
\* its own reasoning call when there are changes; every cache entry is the
\* analysis a root request stored, so no downstream result is read from or
\* written to the cache.
C29_CacheHitStillCascades ==
    ServedFromCache
    => /\ ~ret.raised
       /\ ret.val.changes = ChangesOf(cres.doc)
       /\ \A c \in Range(ret.before) :
            \E i \in TopCalls(c) :
                /\ ret.log[i].producer = OSAgent
                /\ ret.log[i].upstream = ret.val.changes
       /\ ret.before # <<>>
            => /\ "downstream_impacts" \in ret.val.keys
               /\ \A c \in Range(ret.before) : c \in MapKeys(ret.val.downstream_impacts)
       /\ ret.val.changes # <<>>
            => ret.llm >= Cardinality(Range(ret.before) \cap LLMAgents)
       /\ \A k \in CacheKeys :
            RootGet(k).found
            => /\ put[k].done
               /\ put[k].by \in RootRequests
               /\ RootGet(k).doc = put[k].data
               /\ "downstream_impacts" \notin {put[k].data[i][1] : i \in 1..Len(put[k].data)}

\* a cached analysis with a breaking change, handed to two consumers that
\* both made their reasoning call
C29_Witness ==
    /\ ServedFromCache
    /\ ret.val.changes # <<>>
    /\ Cardinality(Range(ret.before) \cap LLMAgents) = 2
    /\ ret.llm >= 2
    /\ \A c \in Range(ret.before) : TopCalls(c) # {}

====
